---- MODULE Spec2Model ----
(***************************************************************************)
(* A model of strawberryfields/decompositions.py.                          *)
(*                                                                         *)
(* Numbers.  The routines work on complex floating point matrices.  The    *)
(* model computes exactly in the ring Z[zeta]/2^k, zeta = exp(i*pi/4): a   *)
(* number is the tuple <<a0, a1, a2, a3, k>> standing for                  *)
(*     (a0 + a1*zeta + a2*zeta^2 + a3*zeta^3) / 2^k                        *)
(* in lowest terms.  The ring holds 0, 1, i, 1/sqrt(2) and every phase     *)
(* that is a multiple of pi/4, which is what beamsplitters with            *)
(* theta in {0, pi/4, pi/2} need.  Angles are integers counting eighths    *)
(* of a turn (units of pi/4).                                              *)
(*                                                                         *)
(* Specifications.  SpecMesh follows clements, clements_phase_end and      *)
(* triangular_decomposition step by step on unitary (and some non-square)  *)
(* inputs.  SpecCalls follows one call of each of the ten routines on      *)
(* small real matrices: the opening checks in source order, then the body; *)
(* factors computed by library routines are named, not computed.           *)
(* SpecGroup follows the grouping of rounded singular values into          *)
(* degenerate runs in takagi and bloch_messiah.                            *)
(***************************************************************************)
EXTENDS Integers, Sequences, FiniteSets, TLC

\* ------------------------------------------------------------------ bounds
\* Largest matrix dimension of the unitary (mesh) routines' inputs.
MaxN == 4
\* Largest integer entry of the real matrices the other routines are called on.
MaxEntry == 2
\* Largest max_mean_photon graph_embed is called with.
MaxPhoton == 2
\* Longest list of singular values grouped (for bloch_messiah: the n of 2n).
MaxLen == 3
\* Largest singular value grouped.
MaxVal == 2

\* takagi's default for rounding
TakagiRounding == 13
\* bloch_messiah's default for rounding
BlochRounding == 9

\* ----------------------------------------------------------------- numbers
RECURSIVE CNorm(_)
CNorm(x) ==
    IF x[1] = 0 /\ x[2] = 0 /\ x[3] = 0 /\ x[4] = 0 THEN <<0, 0, 0, 0, 0>>
    ELSE IF x[5] > 0 /\ x[1] % 2 = 0 /\ x[2] % 2 = 0 /\ x[3] % 2 = 0 /\ x[4] % 2 = 0
         THEN CNorm(<<x[1] \div 2, x[2] \div 2, x[3] \div 2, x[4] \div 2, x[5] - 1>>)
         ELSE x

CZero == <<0, 0, 0, 0, 0>>
COne == <<1, 0, 0, 0, 0>>
CInt(n) == <<n, 0, 0, 0, 0>>
\* 1/sqrt(2) = (zeta - zeta^3)/2 = cos(pi/4) = sin(pi/4)
CHalfSqrt2 == <<0, 1, 0, -1, 1>>

CScale(x, d) == <<x[1] * 2^d, x[2] * 2^d, x[3] * 2^d, x[4] * 2^d, x[5] + d>>

CAdd(x, y) ==
    LET k == IF x[5] >= y[5] THEN x[5] ELSE y[5]
        a == CScale(x, k - x[5])
        b == CScale(y, k - y[5])
    IN  CNorm(<<a[1] + b[1], a[2] + b[2], a[3] + b[3], a[4] + b[4], k>>)

CNeg(x) == <<-x[1], -x[2], -x[3], -x[4], x[5]>>

CSub(x, y) == CAdd(x, CNeg(y))

\* (sum a_i zeta^i)(sum b_j zeta^j) with zeta^4 = -1
CMul(x, y) ==
    CNorm(<< x[1]*y[1] - x[2]*y[4] - x[3]*y[3] - x[4]*y[2],
             x[1]*y[2] + x[2]*y[1] - x[3]*y[4] - x[4]*y[3],
             x[1]*y[3] + x[2]*y[2] + x[3]*y[1] - x[4]*y[4],
             x[1]*y[4] + x[2]*y[3] + x[3]*y[2] + x[4]*y[1],
             x[5] + y[5] >>)

\* complex conjugate: conj(zeta) = -zeta^3, conj(zeta^2) = -zeta^2
CConj(x) == <<x[1], -x[4], -x[3], -x[2], x[5]>>

\* exp(1j*phi) for phi = p eighths of a turn
CExp(p) ==
    LET q == p % 8
    IN  CASE q = 0 -> <<1, 0, 0, 0, 0>>
          [] q = 1 -> <<0, 1, 0, 0, 0>>
          [] q = 2 -> <<0, 0, 1, 0, 0>>
          [] q = 3 -> <<0, 0, 0, 1, 0>>
          [] q = 4 -> <<-1, 0, 0, 0, 0>>
          [] q = 5 -> <<0, -1, 0, 0, 0>>
          [] q = 6 -> <<0, 0, -1, 0, 0>>
          [] q = 7 -> <<0, 0, 0, -1, 0>>

\* x is real and > 0.  A real number of the ring is a0 + a1*sqrt(2) over 2^k
\* (a2 = 0, a3 = -a1).
CIsPosReal(x) ==
    /\ x[3] = 0
    /\ x[4] = -x[2]
    /\ \/ x[1] > 0 /\ x[2] >= 0
       \/ x[1] >= 0 /\ x[2] > 0
       \/ x[1] > 0 /\ x[2] < 0 /\ x[1] * x[1] > 2 * x[2] * x[2]
       \/ x[1] < 0 /\ x[2] > 0 /\ 2 * x[2] * x[2] > x[1] * x[1]

\* |x|^2
CAbs2(x) == CMul(x, CConj(x))

\* The phases p (eighths of a turn, in np.angle's range (-pi, pi]) with
\* x = |x| * exp(i*p*pi/4); empty when the phase of x is no multiple of pi/4.
CPhases(x) == {p \in -3..4 : CIsPosReal(CMul(x, CExp(-p)))}

\* ---------------------------------------------------------------- matrices
\* A matrix is [nr, nc, e] with e a function on (0..nr-1) \X (0..nc-1), the
\* indices as in the source.  (Joining with the empty function changes
\* nothing; it makes TLC compute the entries once, when the matrix is built.)
Mat(nr, nc, f(_, _)) ==
    [nr |-> nr, nc |-> nc,
     e |-> [p \in (0..(nr-1)) \X (0..(nc-1)) |-> f(p[1], p[2])] @@ <<>>]

identity(n) == Mat(n, n, LAMBDA i, j : IF i = j THEN COne ELSE CZero)

transpose(A) == Mat(A.nc, A.nr, LAMBDA i, j : A.e[<<j, i>>])

conj(A) == Mat(A.nr, A.nc, LAMBDA i, j : CConj(A.e[<<i, j>>]))

RECURSIVE DotFrom(_, _, _, _, _)
DotFrom(A, B, i, j, k) ==
    IF k = A.nc THEN CZero
    ELSE CAdd(CMul(A.e[<<i, k>>], B.e[<<k, j>>]), DotFrom(A, B, i, j, k + 1))

\* A @ B, defined when A.nc = B.nr
matmul(A, B) == Mat(A.nr, B.nc, LAMBDA i, j : DotFrom(A, B, i, j, 0))

MatSub(A, B) == Mat(A.nr, A.nc, LAMBDA i, j : CSub(A.e[<<i, j>>], B.e[<<i, j>>]))

\* np.linalg.norm(M) < tol.  Every nonzero number the bounded inputs produce
\* is far larger than the tolerances (1e-6 .. 1e-13), so the Frobenius norm
\* is below tol exactly when M is the zero matrix.
NormBelowTol(M) == \A p \in DOMAIN M.e : M.e[p] = CZero

\* np.diag of a 2-D array: its main diagonal, as a sequence indexed from 0
diag(A) ==
    LET len == IF A.nr <= A.nc THEN A.nr ELSE A.nc
    IN  [i \in 0..(len-1) |-> A.e[<<i, i>>]] @@ <<>>

\* np.diag(v) of a 1-D array: the square matrix with v on its diagonal
diagmat(v) ==
    LET n == Cardinality(DOMAIN v)
    IN  Mat(n, n, LAMBDA i, j : IF i = j THEN v[i] ELSE CZero)

\* reversed(...) of a list
RECURSIVE reversed(_)
reversed(s) == IF s = <<>> THEN <<>> ELSE Append(reversed(Tail(s)), Head(s))

\* A numpy index: a negative index counts from the end
Idx(i, len) == IF i < 0 THEN i + len ELSE i

\* U[i, j]
At(U, i, j) == U.e[<<Idx(i, U.nr), Idx(j, U.nc)>>]

\* ------------------------------------------- two-mode rotation algebra
\* cos and sin of theta = t*pi/4, t in 0..2
CCos(t) == CASE t = 0 -> COne [] t = 1 -> CHalfSqrt2 [] t = 2 -> CZero
CSin(t) == CASE t = 0 -> CZero [] t = 1 -> CHalfSqrt2 [] t = 2 -> COne

\* The Clements T matrix: the identity with the (m, n) block set.  The four
\* assignments are made in the source's order, so a later one wins.
T(m, n, theta, phi, nmax) ==
    LET mat == identity(nmax)
    IN  Mat(nmax, nmax, LAMBDA i, j :
            IF <<i, j>> = <<n, n>> THEN CCos(theta)
            ELSE IF <<i, j>> = <<n, m>> THEN CMul(CExp(phi), CSin(theta))
            ELSE IF <<i, j>> = <<m, n>> THEN CNeg(CSin(theta))
            ELSE IF <<i, j>> = <<m, m>> THEN CMul(CExp(phi), CCos(theta))
            ELSE mat.e[<<i, j>>])

\* (mutant) the inverse taken without negating phi
Ti_KeepsPhi(m, n, theta, phi, nmax) == transpose(T(m, n, theta, phi, nmax))

\* The inverse Clements T matrix
Ti(m, n, theta, phi, nmax) == transpose(T(m, n, theta, -phi, nmax))

\* T(*rec) and Ti(*rec) of a record [m, n, theta, phi, nmax]
TOf(rec) == T(rec[1], rec[2], rec[3], rec[4], rec[5])
TiOf(rec) == Ti(rec[1], rec[2], rec[3], rec[4], rec[5])

\* (theta, phi) of r = num/den, den # 0: theta = arctan|r|, phi = angle(r).
\* arctan|r| is 0 for r = 0 and pi/4 for |r| = 1; no other ratio is an angle
\* of the model.  angle(0) is arctan2 of two signed zeros: 0, pi or -pi,
\* whichever signs the floating point division leaves.
Angles(num, den) ==
    IF num = CZero THEN {<<0, p>> : p \in {-4, 0, 4}}
    ELSE IF CAbs2(num) = CAbs2(den)
         THEN {<<1, p>> : p \in CPhases(CMul(num, CConj(den)))}
         ELSE {}

\* nullTi(m, n, U): the records [n, n+1, theta, phi, nmax] the call can
\* return for a square U
nullTi(m, n, U) ==
    IF At(U, m, n + 1) = CZero THEN {<<n, n + 1, 2, 0, U.nr>>}
    ELSE {<<n, n + 1, a[1], a[2], U.nr>> : a \in Angles(At(U, m, n), At(U, m, n + 1))}

\* The entries of U that nullTi(m, n, U) reads: U[m, n+1] and U[m, n]
nullTiReads(m, n) == {<<m, n + 1>>, <<m, n>>}

\* The entries of U that nullT(n, m, U) reads: U[n-1, m] and U[n, m]
nullTReads(n, m) == {<<n - 1, m>>, <<n, m>>}

\* nullT(n, m, U): the records [n-1, n, theta, phi, nmax] the call can
\* return for a square U
nullT(n, m, U) ==
    IF At(U, n - 1, m) = CZero THEN {<<n - 1, n, 2, 0, U.nr>>}
    ELSE {<<n - 1, n, a[1], a[2], U.nr>> : a \in Angles(CNeg(At(U, n, m)), At(U, n - 1, m))}

\* ------------------------------------------------------- loop orders
\* range(a, b) as a list, and its reverse
RECURSIVE range(_, _)
range(a, b) == IF a >= b THEN <<>> ELSE <<a>> \o range(a + 1, b)

\* (mutant) every sweep runs j upwards
ClementsInner_Ascending(nsize, k) ==
    LET i == nsize - 2 - k
        js == range(0, nsize - 1 - i)
    IN  [x \in 1..Len(js) |-> [k |-> k, i |-> i, j |-> js[x]]]

\* The iterations of clements' two nested loops, in order: [k, i, j] with
\* i = nsize-2-k, and j running down from k when k is even, up to k when odd.
ClementsInner(nsize, k) ==
    LET i == nsize - 2 - k
        js == IF k % 2 = 0 THEN reversed(range(0, nsize - 1 - i))
              ELSE range(0, nsize - 1 - i)
    IN  [x \in 1..Len(js) |-> [k |-> k, i |-> i, j |-> js[x]]]

RECURSIVE ClementsFrom(_, _)
ClementsFrom(nsize, k) ==
    IF k > nsize - 2 THEN <<>>
    ELSE ClementsInner(nsize, k) \o ClementsFrom(nsize, k + 1)

ClementsOrder(nsize) == ClementsFrom(nsize, 0)

\* The iterations of triangular_decomposition's loops: i from nsize-2 down to
\* 0, j from 0 to i
RECURSIVE TriangularFrom(_, _)
TriangularFrom(nsize, i) ==
    IF i < 0 THEN <<>>
    ELSE [x \in 1..(i + 1) |-> [k |-> nsize - 2 - i, i |-> i, j |-> x - 1]]
         \o TriangularFrom(nsize, i - 1)

TriangularOrder(nsize) == TriangularFrom(nsize, nsize - 2)

\* (mutant) the row taken one too high
ClementsTarget_RowAbove(nsize, it) == <<it.i + it.j, it.j>>

\* The entry a loop iteration nullifies: the first two arguments of its
\* nullTi / nullT call
ClementsTarget(nsize, it) == <<it.i + it.j + 1, it.j>>

\* (mutant) the column taken from the outer index: the sweep starts in the
\* last column
TriangularTarget_FromLastColumn(nsize, it) == <<nsize - it.j - 1, it.i>>

TriangularTarget(nsize, it) == <<nsize - it.j - 1, nsize - it.i - 2>>

\* ------------------------------------------------------------ state
VARIABLES
    fn,         \* the routine that was called
    V,          \* its matrix argument, as passed
    pc,         \* "call", "loop", "phase", "done" (returned) or "raised"
    localV,     \* the working matrix of clements / triangular_decomposition
    localVbase, \* the array localV names: "V" (the caller's) or "fresh"
    tilist,     \* clements' tilist
    tlist,      \* clements' / triangular_decomposition's tlist
    todo,       \* the loop iterations still to run
    hist,       \* the nullification steps run so far (history)
    new_tlist,  \* clements_phase_end's new_tlist
    new_diags,  \* clements_phase_end's new_diags
    rest,       \* the records reversed(tlist) has still to yield
    ret,        \* the returned tuple, once pc = "done"
    err,        \* the exception, once pc = "raised"
    args,       \* the call's other arguments
    work,       \* the library calls made so far, in order
    Vnow,       \* what the caller's array holds now
    sym_tlist,  \* rectangular_symmetric's new_tlist
    sym_diags,  \* rectangular_symmetric's new_diags
    rl,         \* the rounded singular values being grouped
    result,     \* the groups built from them
    pmat,       \* bloch_messiah's permutation matrix
    st,         \* bloch_messiah's permuted diagonal of singular values
    blocks      \* the index ranges of the blocks of bloch_messiah's pmat1

vars == <<fn, V, pc, localV, localVbase, tilist, tlist, todo, hist,
          new_tlist, new_diags, rest, ret, err, args, work, Vnow,
          sym_tlist, sym_diags, rl, result,
          pmat, st, blocks>>

meshVars == <<localV, localVbase, tilist, tlist, todo, hist>>
phaseVars == <<new_tlist, new_diags, rest>>
callVars == <<args, work, Vnow>>
symVars == <<sym_tlist, sym_diags>>
groupVars == <<rl, result>>
blochVars == <<pmat, st, blocks>>

NoValue == "none"

\* A returned object: its value, the array that holds its storage ("V": the
\* caller's argument, "fresh": storage made by the call) and whether numpy
\* lets it be written.
Obj(v, base, writeable) == [v |-> v, base |-> base, writeable |-> writeable]

Raise(msg, at) == [msg |-> msg, at |-> at]

\* ------------------------------------------------------------ inputs
\* Entries of the small matrices
Entries ==
    {CZero, COne, CNeg(COne), CExp(2),
     CHalfSqrt2, CNeg(CHalfSqrt2), CMul(CExp(2), CHalfSqrt2)}

AllMats(nr, nc, E) ==
    {[nr |-> nr, nc |-> nc, e |-> f] : f \in [(0..(nr-1)) \X (0..(nc-1)) -> E]}

\* V @ V.conj().T - identity(nsize) has norm below tol
IsUnitaryCheck(M) ==
    NormBelowTol(MatSub(matmul(M, transpose(conj(M))), identity(M.nr)))

Unitary2 == {M \in AllMats(2, 2, Entries) : IsUnitaryCheck(M)}

\* The 2 x 2 unitaries placed inside larger matrices: those whose first row
\* has a real first entry and second entry 0, 1, 1/sqrt(2) or i/sqrt(2)
EmbedSeeds ==
    {U \in Unitary2 :
        /\ U.e[<<0, 0>>] \in {CZero, COne, CHalfSqrt2}
        /\ U.e[<<0, 1>>] \in {CZero, COne, CHalfSqrt2, CMul(CExp(2), CHalfSqrt2)}}

\* The n x n matrix holding the 2 x 2 matrix U on modes (p, p+1) and ones on
\* the rest of the diagonal, its rows rotated down by s
Embed(U, p, s, n) ==
    Mat(n, n, LAMBDA i, j :
        LET r == (i + n - s) % n
        IN  IF r \in {p, p + 1} /\ j \in {p, p + 1} THEN U.e[<<r - p, j - p>>]
            ELSE IF r = j THEN COne ELSE CZero)

MeshSquare ==
    AllMats(1, 1, Entries) \cup AllMats(2, 2, Entries)
    \cup UNION {{Embed(U, p, s, n) : U \in EmbedSeeds, p \in {0, n - 2},
                                     s \in {0, 1}}
                : n \in 3..MaxN}

MeshNonSquare ==
    UNION {AllMats(sh[1], sh[2], {CZero, COne})
           : sh \in {<<1, 2>>, <<2, 1>>, <<2, 3>>, <<3, 2>>}}

MeshInputs == MeshSquare \cup MeshNonSquare

MeshRoutines == {"clements", "clements_phase_end", "triangular_decomposition"}

\* The routines that open with the unitarity check, and those that run
\* clements' loops
UnitaryRoutines == MeshRoutines \cup {"rectangular_symmetric"}
ClementsRoutines == {"clements", "clements_phase_end", "rectangular_symmetric"}

InitMesh ==
    /\ fn \in MeshRoutines
    /\ V \in MeshInputs
    /\ pc = "call"
    /\ localV = V
    /\ localVbase = "V"
    /\ tilist = <<>>
    /\ tlist = <<>>
    /\ todo = <<>>
    /\ hist = <<>>
    /\ new_tlist = <<>>
    /\ new_diags = <<>>
    /\ rest = <<>>
    /\ ret = NoValue
    /\ err = NoValue
    /\ sym_tlist = <<>>
    /\ sym_diags = <<>>
    /\ args = NoValue
    /\ work = <<>>
    /\ Vnow = V
    /\ rl = <<>>
    /\ result = <<>>
    /\ pmat = NoValue
    /\ st = NoValue
    /\ blocks = <<>>

\* ----------------------------------------- clements, triangular_decomposition
\* The unitarity check that opens clements and triangular_decomposition
MeshValidate ==
    /\ pc = "call"
    /\ fn \in UnitaryRoutines
    /\ IF ~IsUnitaryCheck(V)
       THEN /\ pc' = "raised"
            /\ err' = Raise("The input matrix is not unitary", "validation")
            /\ UNCHANGED todo
       ELSE /\ pc' = "loop"
            /\ todo' = IF fn = "triangular_decomposition"
                       THEN TriangularOrder(V.nr) ELSE ClementsOrder(V.nr)
            /\ UNCHANGED err
    /\ UNCHANGED <<fn, V, localV, localVbase, tilist, tlist, hist, ret>>
    /\ UNCHANGED phaseVars
    /\ UNCHANGED <<callVars, symVars, groupVars, blochVars>>

\* One nullification: the record is appended to a list and the working
\* matrix is rebound to the product.  nullTi and nullT raise on a matrix
\* that is not square.
NullStep(op, target, recs, toTi) ==
    IF localV.nr # localV.nc
    THEN /\ pc' = "raised"
         /\ err' = Raise("U must be a square matrix", op)
         /\ UNCHANGED meshVars
    ELSE /\ \E rec \in recs :
              /\ tilist' = IF toTi THEN Append(tilist, rec) ELSE tilist
              /\ tlist' = IF toTi THEN tlist ELSE Append(tlist, rec)
              /\ localV' = IF toTi THEN matmul(localV, TiOf(rec))
                           ELSE matmul(TOf(rec), localV)
              /\ hist' = Append(hist, [op |-> op, k |-> Head(todo).k,
                                       target |-> target, rec |-> rec])
         /\ localVbase' = "fresh"
         /\ todo' = Tail(todo)
         /\ UNCHANGED <<pc, err>>

\* clements, k even: tilist.append(nullTi(i+j+1, j, localV));
\* localV = localV @ Ti(*tilist[-1])
ClementsStepTi ==
    /\ pc = "loop"
    /\ fn \in ClementsRoutines
    /\ todo # <<>>
    /\ Head(todo).k % 2 = 0
    /\ LET t == ClementsTarget(V.nr, Head(todo))
       IN  NullStep("nullTi", t, nullTi(t[1], t[2], localV), TRUE)
    /\ UNCHANGED <<fn, V, ret>>
    /\ UNCHANGED phaseVars
    /\ UNCHANGED <<callVars, symVars, groupVars, blochVars>>

\* clements, k odd: tlist.append(nullT(i+j+1, j, localV));
\* localV = T(*tlist[-1]) @ localV
ClementsStepT ==
    /\ pc = "loop"
    /\ fn \in ClementsRoutines
    /\ todo # <<>>
    /\ Head(todo).k % 2 = 1
    /\ LET t == ClementsTarget(V.nr, Head(todo))
       IN  NullStep("nullT", t, nullT(t[1], t[2], localV), FALSE)
    /\ UNCHANGED <<fn, V, ret>>
    /\ UNCHANGED phaseVars
    /\ UNCHANGED <<callVars, symVars, groupVars, blochVars>>

\* return tilist, tlist, np.diag(localV): np.diag of a 2-D array is a
\* read-only view of the array's storage
ClementsReturn ==
    /\ pc = "loop"
    /\ fn = "clements"
    /\ todo = <<>>
    /\ pc' = "done"
    /\ ret' = <<Obj(tilist, "fresh", TRUE), Obj(tlist, "fresh", TRUE),
                Obj(diag(localV), localVbase, FALSE)>>
    /\ UNCHANGED <<fn, V, err>>
    /\ UNCHANGED meshVars
    /\ UNCHANGED phaseVars
    /\ UNCHANGED <<callVars, symVars, groupVars, blochVars>>

\* triangular_decomposition: tlist.append(nullT(nsize-j-1, nsize-i-2, localV));
\* localV = T(*tlist[-1]) @ localV
TriangularStep ==
    /\ pc = "loop"
    /\ fn = "triangular_decomposition"
    /\ todo # <<>>
    /\ LET t == TriangularTarget(V.nr, Head(todo))
       IN  NullStep("nullT", t, nullT(t[1], t[2], localV), FALSE)
    /\ UNCHANGED <<fn, V, ret>>
    /\ UNCHANGED phaseVars
    /\ UNCHANGED <<callVars, symVars, groupVars, blochVars>>

\* return list(reversed(tlist)), np.diag(localV)
TriangularReturn ==
    /\ pc = "loop"
    /\ fn = "triangular_decomposition"
    /\ todo = <<>>
    /\ pc' = "done"
    /\ ret' = <<Obj(reversed(tlist), "fresh", TRUE),
                Obj(diag(localV), localVbase, FALSE)>>
    /\ UNCHANGED <<fn, V, err>>
    /\ UNCHANGED meshVars
    /\ UNCHANGED phaseVars
    /\ UNCHANGED <<callVars, symVars, groupVars, blochVars>>

\* ------------------------------------------------------ clements_phase_end
\* np.angle of a number whose phase is a multiple of pi/4
angle(x) == CHOOSE p \in -3..4 : p \in CPhases(x)

\* np.fmod(x, m): the remainder with the sign of x
fmod(x, m) == IF x >= 0 THEN x % m ELSE -((-x) % m)

\* The new phi of a beamsplitter pushed through diagonal phases alpha, beta:
\* np.fmod((alpha - beta + np.pi), 2*np.pi)
NewPhi(alpha, beta) == fmod(alpha - beta + 4, 8)

\* (mutant) the pass keeps the record's old phi
PhasePush_KeepsPhi(i, diags) ==
    LET em == i[1]
        en == i[2]
        beta == angle(diags[en])
        d1 == [diags EXCEPT ![em] = CExp(beta - i[4] + 4)]
        d2 == [d1 EXCEPT ![en] = CExp(beta)]
    IN  [new_i |-> i, new_diags |-> d2]

\* One pass of the loop body for record i of reversed(tlist): the new record
\* and the new diagonal
PhasePush(i, diags) ==
    LET em == i[1]
        en == i[2]
        alpha == angle(diags[em])
        beta == angle(diags[en])
        theta == i[3]
        phi == i[4]
        new_theta == theta
        new_phi == NewPhi(alpha, beta)
        new_alpha == beta - phi + 4
        new_beta == beta
        new_i == <<i[1], i[2], new_theta, new_phi, i[5]>>
        d1 == [diags EXCEPT ![em] = CExp(new_alpha)]
        d2 == [d1 EXCEPT ![en] = CExp(new_beta)]
    IN  [new_i |-> new_i, new_diags |-> d2]

\* tilist, tlist, diags = clements(V, tol);
\* new_tlist, new_diags = tilist.copy(), diags.copy()
PhaseBegin ==
    /\ pc = "loop"
    /\ fn \in {"clements_phase_end", "rectangular_symmetric"}
    /\ todo = <<>>
    /\ pc' = "phase"
    /\ new_tlist' = tilist
    /\ new_diags' = diag(localV)
    /\ rest' = reversed(tlist)
    /\ UNCHANGED <<fn, V, ret, err>>
    /\ UNCHANGED meshVars
    /\ UNCHANGED <<callVars, symVars, groupVars, blochVars>>

\* for i in reversed(tlist): ... new_tlist = new_tlist + [new_i]
PhaseStep ==
    /\ pc = "phase"
    /\ rest # <<>>
    /\ LET r == PhasePush(Head(rest), new_diags)
       IN  /\ new_tlist' = new_tlist \o <<r.new_i>>
           /\ new_diags' = r.new_diags
    /\ rest' = Tail(rest)
    /\ UNCHANGED <<fn, V, pc, ret, err>>
    /\ UNCHANGED meshVars
    /\ UNCHANGED <<callVars, symVars, groupVars, blochVars>>

\* return (new_tlist, new_diags)
PhaseReturn ==
    /\ pc = "phase"
    /\ fn = "clements_phase_end"
    /\ rest = <<>>
    /\ pc' = "done"
    /\ ret' = <<Obj(new_tlist, "fresh", TRUE), Obj(new_diags, "fresh", TRUE)>>
    /\ UNCHANGED <<fn, V, err>>
    /\ UNCHANGED meshVars
    /\ UNCHANGED phaseVars
    /\ UNCHANGED <<callVars, symVars, groupVars, blochVars>>

NextMesh ==
    \/ MeshValidate
    \/ ClementsStepTi
    \/ ClementsStepT
    \/ ClementsReturn
    \/ TriangularStep
    \/ TriangularReturn
    \/ PhaseBegin
    \/ PhaseStep
    \/ PhaseReturn

SpecMesh == InitMesh /\ [][NextMesh]_vars

\* The records the pending nullification can return
PendingRecs ==
    LET it == Head(todo)
        t == IF fn = "triangular_decomposition" THEN TriangularTarget(V.nr, it)
             ELSE ClementsTarget(V.nr, it)
    IN  IF fn # "triangular_decomposition" /\ it.k % 2 = 0
        THEN nullTi(t[1], t[2], localV) ELSE nullT(t[1], t[2], localV)

\* Every angle the bounded inputs lead to is an angle of the model: no call
\* stops for want of one
MeshAnglesInModel ==
    (pc = "loop" /\ todo # <<>> /\ localV.nr = localV.nc) => PendingRecs # {}

\* ---------------------------------------------------- rectangular_symmetric
\* tlist, diags = clements_phase_end(V, tol);
\* new_tlist, new_diags = [], np.ones(len(diags), dtype=diags.dtype)
RectBegin ==
    /\ pc = "phase"
    /\ fn = "rectangular_symmetric"
    /\ rest = <<>>
    /\ pc' = "sym"
    /\ sym_tlist' = <<>>
    /\ sym_diags' = [x \in DOMAIN new_diags |-> COne]
    /\ rest' = new_tlist
    /\ UNCHANGED <<fn, V, ret, err, new_tlist, new_diags>>
    /\ UNCHANGED <<meshVars, callVars, groupVars, blochVars>>

\* One pass of rectangular_symmetric's loop body for record i of tlist: the
\* new record [n, m, internal_phase, external_phase, n_size] and the new
\* diagonal
SymmetricPush(i, diags) ==
    LET em == i[1]
        en == i[2]
        alpha == angle(diags[em])
        beta == angle(diags[en])
        theta == i[3]
        phi == i[4]
        external_phase == fmod(phi + alpha - beta, 8)
        internal_phase == fmod(4 + 2 * theta, 8)
        new_alpha == beta - theta + 4
        new_beta == 0 * 4 - theta + beta
        new_i == <<i[1], i[2], internal_phase, external_phase, i[5]>>
        d1 == [diags EXCEPT ![em] = CExp(new_alpha)]
        d2 == [d1 EXCEPT ![en] = CExp(new_beta)]
    IN  [new_i |-> new_i, new_diags |-> d2]

\* for i in tlist: ... new_tlist = new_tlist + [new_i]
RectStep ==
    /\ pc = "sym"
    /\ rest # <<>>
    /\ LET r == SymmetricPush(Head(rest), sym_diags)
       IN  /\ sym_tlist' = sym_tlist \o <<r.new_i>>
           /\ sym_diags' = r.new_diags
    /\ rest' = Tail(rest)
    /\ UNCHANGED <<fn, V, pc, ret, err, new_tlist, new_diags>>
    /\ UNCHANGED <<meshVars, callVars, groupVars, blochVars>>

\* new_diags = diags * new_diags; return (new_tlist, new_diags)
RectReturn ==
    /\ pc = "sym"
    /\ rest = <<>>
    /\ pc' = "done"
    /\ ret' = <<Obj(sym_tlist, "fresh", TRUE),
                Obj([x \in DOMAIN new_diags |-> CMul(new_diags[x], sym_diags[x])],
                    "fresh", TRUE)>>
    /\ UNCHANGED <<fn, V, err>>
    /\ UNCHANGED <<meshVars, phaseVars, symVars, callVars, groupVars, blochVars>>

\* ------------------------------------------------------------ real numbers
\* 1/2
CHalf == <<1, 0, 0, 0, 1>>

\* x < y for real x, y
CLess(x, y) == CIsPosReal(CSub(y, x))

\* |x| for real x
absolute(x) == IF CLess(x, CZero) THEN CNeg(x) ELSE x

\* x / n for a positive integer n: a factor 2 of n raises the exponent, an
\* odd factor divides the numerators (exact when it divides them all)
RECURSIVE CDivInt(_, _)
CDivInt(x, n) ==
    IF n % 2 = 0 THEN CDivInt(CNorm(<<x[1], x[2], x[3], x[4], x[5] + 1>>), n \div 2)
    ELSE <<x[1] \div n, x[2] \div n, x[3] \div n, x[4] \div n, x[5]>>

\* x / n is a number of the ring
CDivExact(x, n) == CMul(CDivInt(x, n), CInt(n)) = x

\* np.round(x, decimals) of a rational x = a/2^k.  a/2^k has exactly k
\* decimal places, so rounding to k or more places changes nothing; rounding
\* to 0 places goes to the nearest integer, a tie to the even one.
round(x, decimals) ==
    IF x[5] <= decimals THEN x
    ELSE LET q == x[1] \div (2^x[5])
             r == x[1] - q * (2^x[5])
         IN  IF 2 * r < 2^x[5] THEN CInt(q)
             ELSE IF 2 * r > 2^x[5] THEN CInt(q + 1)
             ELSE IF q % 2 = 0 THEN CInt(q) ELSE CInt(q + 1)

\* np.trace(A)
RECURSIVE TraceFrom(_, _)
TraceFrom(A, i) == IF i = A.nr THEN CZero ELSE CAdd(A.e[<<i, i>>], TraceFrom(A, i + 1))
trace(A) == TraceFrom(A, 0)

\* A without row 0 and column c
Minor(A, c) ==
    Mat(A.nr - 1, A.nc - 1, LAMBDA i, j : A.e[<<i + 1, IF j < c THEN j ELSE j + 1>>])

\* The determinant, expanded along row 0
RECURSIVE Det(_)
RECURSIVE DetFrom(_, _)
DetFrom(A, c) ==
    IF c = A.nc THEN CZero
    ELSE LET term == CMul(A.e[<<0, c>>], Det(Minor(A, c)))
         IN  CAdd(IF c % 2 = 0 THEN term ELSE CNeg(term), DetFrom(A, c + 1))
Det(A) == IF A.nr = 0 THEN COne ELSE DetFrom(A, 0)

\* The leading k x k block of A
Leading(A, k) == Mat(k, k, LAMBDA i, j : A.e[<<i, j>>])

\* vals = np.linalg.eigvalsh(V); no val <= 0.  The eigenvalues of a real
\* symmetric matrix are all positive exactly when its leading principal
\* minors are (Sylvester).
PositiveDefinite(A) == \A k \in 1..A.nr : CIsPosReal(Det(Leading(A, k)))

\* np.linalg.norm(A - np.transpose(A)) < tol
Symmetric(A) == NormBelowTol(MatSub(A, transpose(A)))

\* sympmat(n): the symplectic form [[0, I], [-I, 0]] for n modes
sympmat(n) ==
    Mat(2 * n, 2 * n, LAMBDA i, j :
        IF j = i + n THEN COne ELSE IF i = j + n THEN CNeg(COne) ELSE CZero)

\* ------------------------------------------------------------------ takagi
\* The list a sort of s into descending order gives
RECURSIVE SortDescending(_)
SortDescending(s) ==
    IF s = <<>> THEN <<>>
    ELSE LET top == CHOOSE x \in 1..Len(s) : \A y \in 1..Len(s) : ~CLess(s[x], s[y])
         IN  <<s[top]>> \o SortDescending(SubSeq(s, 1, top - 1) \o SubSeq(s, top + 1, Len(s)))

IsDiagonal(N) == \A p \in DOMAIN N.e : p[1] # p[2] => N.e[p] = CZero

\* The singular values np.linalg.svd returns for a real diagonal matrix: the
\* absolute values of its diagonal, largest first
SingularValues(N) == SortDescending([x \in 1..N.nr |-> absolute(N.e[<<x - 1, x - 1>>])])

\* takagi's checks: the first message raised, or "ok"
TakagiChecks(N) ==
    IF N.nr # N.nc THEN "The input matrix must be square"
    ELSE IF ~Symmetric(N) THEN "The input matrix is not symmetric"
    ELSE "ok"

\* rl = np.round(l, rounding)
TakagiValues(N, rounding) ==
    LET l == SingularValues(N)
    IN  [x \in 1..Len(l) |-> round(l[x], rounding)]

\* A value a library routine computes that the model does not follow
Computed(what) == [computed |-> what]

\* What every step of a call leaves alone
CallFrame ==
    /\ UNCHANGED <<fn, V, args, Vnow>>
    /\ UNCHANGED <<meshVars, phaseVars, symVars, groupVars, blochVars>>

\* The checks a routine opens with: the first failing check raises, and
\* calls are the library calls made on the way
Validate(name, chk) ==
    /\ pc = "call"
    /\ fn = name
    /\ work' = work \o chk.calls
    /\ IF chk.msg # "ok"
       THEN /\ pc' = "raised"
            /\ err' = Raise(chk.msg, "validation")
       ELSE /\ pc' = "checked"
            /\ UNCHANGED err
    /\ UNCHANGED ret
    /\ CallFrame

\* The routine name has passed its opening checks
Checked(name) == pc = "checked" /\ fn = name

\* The rest of a routine, from its checks to its return statement
Return(name, calls, value) ==
    /\ Checked(name)
    /\ work' = work \o calls
    /\ pc' = "done"
    /\ ret' = value
    /\ UNCHANGED err
    /\ CallFrame

\* An exception raised after the opening checks
RaiseLater(name, calls, msg, at) ==
    /\ Checked(name)
    /\ work' = work \o calls
    /\ pc' = "raised"
    /\ err' = Raise(msg, at)
    /\ UNCHANGED ret
    /\ CallFrame

TakagiValidate ==
    /\ fn = "takagi"
    /\ Validate("takagi", [msg |-> TakagiChecks(V), calls |-> <<>>])

TakagiCalls == <<"svd", "round", "groupby", "sqrtm", "block_diag">>

\* v, l, ws = np.linalg.svd(N) ... return rl, U
TakagiReturn ==
    /\ Checked("takagi")
    /\ Return("takagi", TakagiCalls,
              <<Obj(TakagiValues(V, args.rounding), "fresh", TRUE),
                Obj(Computed("U"), "fresh", TRUE)>>)

\* ------------------------------------------------------------- graph_embed
GraphEmbedChecks(A) ==
    IF A.nr # A.nc THEN "The matrix is not square."
    ELSE IF ~Symmetric(A) THEN "The matrix is not symmetric."
    ELSE "ok"

GraphEmbedValidate ==
    /\ fn = "graph_embed"
    /\ Validate("graph_embed", [msg |-> GraphEmbedChecks(V), calls |-> <<>>])

\* A - np.trace(A)*np.identity(n)/n
Traceless(A) ==
    LET I == identity(A.nc)
    IN  Mat(A.nr, A.nc, LAMBDA i, j :
            CSub(A.e[<<i, j>>], CDivInt(CMul(trace(A), I.e[<<i, j>>]), A.nc)))

\* One entry of -np.arctanh(s/(s[0]*sc)), sc = np.sqrt(1.0+1.0/max_mean_photon).
\* sc is positive, so the divisor is zero exactly when s[0] is; a division
\* by zero gives nan (0/0) or inf, and arctanh of either is nan.  arctanh of
\* zero is zero; any other value is kept as the quotient it is taken of.
Squeezing(si, s0, max_mean_photon) ==
    [kind |-> IF s0 = CZero THEN "nan" ELSE "finite",
     of |-> <<si, s0, max_mean_photon>>]

IsZeroFloat(x) == x.kind = "finite" /\ x.of[1] = CZero

\* The matrix graph_embed hands to takagi
GraphEmbedMatrix == IF args.make_traceless THEN Traceless(V) ELSE V

\* s, U = takagi(A, tol=tol); vals = -np.arctanh(s/(s[0]*sc)); return vals, U.
\* takagi makes its own checks of the matrix it is handed.
GraphEmbedReturn ==
    /\ Checked("graph_embed")
    /\ IF TakagiChecks(GraphEmbedMatrix) # "ok"
       THEN RaiseLater("graph_embed", <<>>, TakagiChecks(GraphEmbedMatrix), "takagi")
       ELSE Return("graph_embed", TakagiCalls \o <<"sqrt", "arctanh">>,
                   LET s == TakagiValues(GraphEmbedMatrix, TakagiRounding)
                   IN  <<Obj([x \in 1..Len(s) |->
                                 Squeezing(s[x], s[1], args.max_mean_photon)],
                             "fresh", TRUE),
                         Obj(Computed("U"), "fresh", TRUE)>>)

\* -------------------------------------------------------------- williamson
WilliamsonChecks(M) ==
    IF M.nr # M.nc THEN [msg |-> "The input matrix is not square", calls |-> <<>>]
    ELSE IF ~Symmetric(M)
         THEN [msg |-> "The input matrix is not symmetric", calls |-> <<>>]
    ELSE IF M.nr % 2 # 0
         THEN [msg |-> "The input matrix must have an even number of rows/columns",
               calls |-> <<>>]
    ELSE [msg |-> IF PositiveDefinite(M) THEN "ok"
                  ELSE "Input matrix is not positive definite",
          calls |-> <<"sympmat", "changebasis", "eigvalsh">>]

WilliamsonValidate ==
    /\ fn = "williamson"
    /\ Validate("williamson", WilliamsonChecks(V))

\* Mm12 = sqrtm(np.linalg.inv(V)).real ... return Db, np.linalg.inv(S).T
WilliamsonReturn ==
    /\ Checked("williamson")
    /\ Return("williamson", <<"inv", "sqrtm", "schur", "block_diag", "sqrtm", "inv">>,
              <<Obj(Computed("Db"), "fresh", TRUE),
                Obj(Computed("inv(S).T"), "fresh", TRUE)>>)

\* ----------------------------------------------------------- bloch_messiah
\* np.linalg.norm(np.transpose(S) @ omega @ S - omega) < tol
IsSymplectic(S) ==
    LET omega == sympmat(S.nr \div 2)
    IN  NormBelowTol(MatSub(matmul(matmul(transpose(S), omega), S), omega))

BlochMessiahChecks(S) ==
    IF S.nr # S.nc THEN [msg |-> "The input matrix is not square", calls |-> <<>>]
    ELSE IF S.nr % 2 # 0
         THEN [msg |-> "The input matrix must have an even number of rows/columns",
               calls |-> <<>>]
    ELSE [msg |-> IF IsSymplectic(S) THEN "ok" ELSE "The input matrix is not symplectic",
          calls |-> <<"sympmat">>]

BlochMessiahValidate ==
    /\ fn = "bloch_messiah"
    /\ Validate("bloch_messiah", BlochMessiahChecks(V))

\* (mutant) the test multiplies S by itself, not by its transpose
IsPassive_NoTranspose(S) == NormBelowTol(MatSub(matmul(S, S), identity(S.nr)))

\* not (np.linalg.norm(np.transpose(S) @ S - np.eye(2*n)) >= tol)
IsPassive(S) == NormBelowTol(MatSub(matmul(transpose(S), S), identity(S.nr)))

\* else: ut1 = S; st1 = np.eye(2*n); v1 = np.eye(2*n).  ut1 is the caller's
\* array itself.
BlochMessiahPassive ==
    /\ Checked("bloch_messiah")
    /\ IsPassive(V)
    /\ Return("bloch_messiah", <<>>,
              <<Obj(Vnow, "V", TRUE), Obj(identity(V.nr), "fresh", TRUE),
                Obj(identity(V.nr), "fresh", TRUE)>>)

\* u, sigma = polar(S, side='left') ... v1 = np.transpose(ut1) @ u
BlochMessiahActive ==
    /\ Checked("bloch_messiah")
    /\ ~IsPassive(V)
    /\ Return("bloch_messiah", <<"polar", "takagi", "groupby", "svd", "block_diag">>,
              <<Obj(Computed("ut1"), "fresh", TRUE), Obj(Computed("st1"), "fresh", TRUE),
                Obj(Computed("v1"), "fresh", TRUE)>>)

\* --------------------------------------------- covmat_to_hamil, hamil_to_covmat
CovmatToHamilChecks(M) ==
    IF M.nr # M.nc THEN [msg |-> "Input matrix must be square", calls |-> <<>>]
    ELSE IF ~Symmetric(M)
         THEN [msg |-> "The input matrix is not symmetric", calls |-> <<>>]
    ELSE [msg |-> IF PositiveDefinite(M) THEN "ok"
                  ELSE "Input matrix is not positive definite",
          calls |-> <<"sympmat", "eigvalsh">>]

CovmatToHamilValidate ==
    /\ fn = "covmat_to_hamil"
    /\ Validate("covmat_to_hamil", CovmatToHamilChecks(V))

\* A @ B raises when the inner dimensions differ
MatmulFits(A, B) == A.nc = B.nr

\* W = 1j*V @ omega raises on a dimension mismatch
CovmatToHamilMatmulRaises ==
    /\ Checked("covmat_to_hamil")
    /\ ~MatmulFits(V, sympmat(V.nr \div 2))
    /\ RaiseLater("covmat_to_hamil", <<"matmul">>, "matmul: dimension mismatch", "matmul")

\* W = 1j*V @ omega; l, v = np.linalg.eig(W); H = ...; return H
CovmatToHamilReturn ==
    /\ Checked("covmat_to_hamil")
    /\ MatmulFits(V, sympmat(V.nr \div 2))
    /\ Return("covmat_to_hamil", <<"matmul", "eig", "arctanh", "inv">>,
              <<Obj(Computed("H"), "fresh", TRUE)>>)

HamilToCovmatChecks(H) ==
    IF H.nr # H.nc THEN [msg |-> "Input matrix must be square", calls |-> <<>>]
    ELSE IF ~Symmetric(H)
         THEN [msg |-> "The input matrix is not symmetric", calls |-> <<>>]
    ELSE [msg |-> IF PositiveDefinite(H) THEN "ok"
                  ELSE "Input matrix is not positive definite",
          calls |-> <<"eigvalsh">>]

HamilToCovmatValidate ==
    /\ fn = "hamil_to_covmat"
    /\ Validate("hamil_to_covmat", HamilToCovmatChecks(V))

\* n = n//2; omega = sympmat(n); Wi = 1j*omega @ H raises on a dimension
\* mismatch
HamilToCovmatMatmulRaises ==
    /\ Checked("hamil_to_covmat")
    /\ ~MatmulFits(sympmat(V.nr \div 2), V)
    /\ RaiseLater("hamil_to_covmat", <<"sympmat", "matmul">>,
                  "matmul: dimension mismatch", "matmul")

\* Wi = 1j*omega @ H; l, v = np.linalg.eig(Wi); V = ...; return V
HamilToCovmatReturn ==
    /\ Checked("hamil_to_covmat")
    /\ MatmulFits(sympmat(V.nr \div 2), V)
    /\ Return("hamil_to_covmat", <<"sympmat", "matmul", "eig", "tanh", "inv">>,
              <<Obj(Computed("V"), "fresh", TRUE)>>)

\* ------------------------------------------------------------- the caller
\* The caller assigns to an entry of a returned array.  An array that is the
\* input itself takes the assignment into the input.
CallerWrite ==
    /\ pc = "done"
    /\ Vnow = V
    /\ \E k \in 1..Len(ret) :
          /\ ret[k].base = "V"
          /\ ret[k].writeable
          /\ \E p \in DOMAIN V.e, x \in {CZero, COne} :
                /\ x # V.e[p]
                /\ Vnow' = [V EXCEPT !.e[p] = x]
                /\ ret' = [ret EXCEPT ![k].v = Vnow']
    /\ UNCHANGED <<fn, V, pc, err, args, work>>
    /\ UNCHANGED <<meshVars, phaseVars, symVars, groupVars, blochVars>>

\* ------------------------------------------------------- inputs of a call
RealEntries == {CInt(a) : a \in (-1)..MaxEntry} \cup {CHalf}

\* diag(2, 1, 1/2, 1): a squeezer of the first of two modes
Squeezer == diagmat([i \in 0..3 |-> CASE i = 0 -> CInt(2) [] i = 2 -> CHalf [] OTHER -> COne])

CallInputs ==
    AllMats(1, 1, RealEntries) \cup AllMats(1, 2, RealEntries)
    \cup AllMats(2, 1, RealEntries) \cup AllMats(2, 2, RealEntries)
    \cup AllMats(2, 3, {CZero, COne})
    \cup {diagmat(d) : d \in [0..2 -> {CInt(a) : a \in 0..MaxEntry}]}
    \cup {identity(4), sympmat(2), Squeezer}

Routines ==
    {"takagi", "graph_embed", "clements", "clements_phase_end",
     "rectangular_symmetric", "triangular_decomposition", "williamson",
     "bloch_messiah", "covmat_to_hamil", "hamil_to_covmat"}

\* The other arguments of a call
CallArgs(name) ==
    CASE name = "takagi" -> [rounding : {0, TakagiRounding}]
      [] name = "graph_embed" ->
            [max_mean_photon : 1..MaxPhoton, make_traceless : BOOLEAN]
      [] OTHER -> {NoValue}

\* The singular values of a matrix the checks accept are followed for real
\* diagonal matrices whose entries stay in the ring
ValuesInModel(name, M, a) ==
    IF name \notin {"takagi", "graph_embed"} THEN TRUE
    ELSE IF M.nr # M.nc THEN TRUE
    ELSE IF ~Symmetric(M) THEN TRUE
    ELSE /\ IsDiagonal(M)
         /\ (name = "graph_embed" /\ a.make_traceless) => CDivExact(trace(M), M.nc)

InitCalls ==
    /\ fn \in Routines
    /\ V \in CallInputs
    /\ args \in CallArgs(fn)
    /\ ValuesInModel(fn, V, args)
    /\ pc = "call"
    /\ localV = V
    /\ localVbase = "V"
    /\ tilist = <<>>
    /\ tlist = <<>>
    /\ todo = <<>>
    /\ hist = <<>>
    /\ new_tlist = <<>>
    /\ new_diags = <<>>
    /\ rest = <<>>
    /\ sym_tlist = <<>>
    /\ sym_diags = <<>>
    /\ ret = NoValue
    /\ err = NoValue
    /\ work = <<>>
    /\ Vnow = V
    /\ rl = <<>>
    /\ result = <<>>
    /\ pmat = NoValue
    /\ st = NoValue
    /\ blocks = <<>>

NextCalls ==
    \/ MeshValidate
    \/ ClementsStepTi
    \/ ClementsStepT
    \/ ClementsReturn
    \/ TriangularStep
    \/ TriangularReturn
    \/ PhaseBegin
    \/ PhaseStep
    \/ PhaseReturn
    \/ RectBegin
    \/ RectStep
    \/ RectReturn
    \/ TakagiValidate
    \/ TakagiReturn
    \/ GraphEmbedValidate
    \/ GraphEmbedReturn
    \/ WilliamsonValidate
    \/ WilliamsonReturn
    \/ BlochMessiahValidate
    \/ BlochMessiahPassive
    \/ BlochMessiahActive
    \/ CovmatToHamilValidate
    \/ CovmatToHamilMatmulRaises
    \/ CovmatToHamilReturn
    \/ HamilToCovmatValidate
    \/ HamilToCovmatMatmulRaises
    \/ HamilToCovmatReturn
    \/ CallerWrite

SpecCalls == InitCalls /\ [][NextCalls]_vars

\* --------------------------------------------- degenerate-subspace grouping
\* The length of the run of values equal to s[1] that opens s
RECURSIVE RunLength(_)
RunLength(s) ==
    IF Len(s) >= 2 /\ s[2] = s[1] THEN 1 + RunLength(Tail(s)) ELSE 1

\* The values of s in order of first occurrence
RECURSIVE DistinctValues(_)
DistinctValues(s) ==
    IF s = <<>> THEN <<>>
    ELSE <<Head(s)>> \o DistinctValues(SelectSeq(Tail(s), LAMBDA x : x # Head(s)))

\* (mutant) one group per value, wherever the value occurs
groupby_ByValue(s) ==
    LET keys == DistinctValues(s)
    IN  [x \in 1..Len(keys) |-> SelectSeq(s, LAMBDA y : y = keys[x])]

\* [list(g) for k, g in itertools.groupby(s)]: a new group starts whenever
\* the value changes
RECURSIVE groupby(_)
groupby(s) ==
    IF s = <<>> THEN <<>>
    ELSE LET len == RunLength(s)
         IN  <<SubSeq(s, 1, len)>> \o groupby(SubSeq(s, len + 1, Len(s)))

\* for k in result: for ind, j in enumerate(k): k[ind] = kk; kk = kk+1
RECURSIVE Renumber(_, _)
Renumber(groups, kk) ==
    IF groups = <<>> THEN <<>>
    ELSE <<[x \in 1..Len(Head(groups)) |-> kk + x - 1]>>
         \o Renumber(Tail(groups), kk + Len(Head(groups)))

\* np.cumsum of a list
RECURSIVE cumsum(_, _)
cumsum(s, acc) ==
    IF s = <<>> THEN <<>> ELSE <<acc + Head(s)>> \o cumsum(Tail(s), acc + Head(s))

\* (mutant) the second half is not reversed
perm_NoReverse(n) == range(0, 2 * n)

\* perm = list(range(0, n)) + list(reversed(range(n, 2*n)))
perm(n) == range(0, n) \o reversed(range(n, 2 * n))

\* np.diag(st)[:n] for st = pmat @ np.diag(ss) @ pmat, pmat the identity with
\* its rows taken in the order perm: entry (i, i) of st is the sum over k, l
\* of pmat[i, k] * diag(ss)[k, l] * pmat[l, i], which is ss[perm[i]] when
\* perm[perm[i]] = i and zero otherwise
PermutedValues(ss, n) ==
    LET p == perm(n)
    IN  [i \in 1..n |-> IF p[p[i] + 1] = i - 1 THEN ss[p[i] + 1] ELSE 0]

\* zip(a, b)
zip(a, b) ==
    [x \in 1..(IF Len(a) <= Len(b) THEN Len(a) ELSE Len(b)) |-> <<a[x], b[x]>>]

GroupingRoutines == {"takagi", "bloch_messiah"}

\* The rounded singular values: every list of length up to MaxLen for
\* takagi, every list of length 2n, n up to MaxLen, for bloch_messiah
GroupingInputs(name) ==
    IF name = "takagi"
    THEN UNION {[1..len -> 0..MaxVal] : len \in 0..MaxLen}
    ELSE UNION {[1..(2 * n) -> 0..MaxVal] : n \in 0..MaxLen}

InitGroup ==
    /\ fn \in GroupingRoutines
    /\ rl \in GroupingInputs(fn)
    /\ pc = "groupby"
    /\ result = <<>>
    /\ pmat = NoValue
    /\ st = NoValue
    /\ blocks = <<>>
    /\ V = NoValue
    /\ localV = NoValue
    /\ localVbase = NoValue
    /\ tilist = <<>>
    /\ tlist = <<>>
    /\ todo = <<>>
    /\ hist = <<>>
    /\ new_tlist = <<>>
    /\ new_diags = <<>>
    /\ rest = <<>>
    /\ sym_tlist = <<>>
    /\ sym_diags = <<>>
    /\ ret = NoValue
    /\ err = NoValue
    /\ args = NoValue
    /\ work = <<>>
    /\ Vnow = NoValue

GroupFrame ==
    /\ UNCHANGED <<fn, V, err, rl>>
    /\ UNCHANGED <<meshVars, phaseVars, symVars, callVars, blochVars>>

\* takagi: for k, g in groupby(rl): result.append(list(g))
TakagiGroupby ==
    /\ pc = "groupby"
    /\ fn = "takagi"
    /\ result' = groupby(rl)
    /\ pc' = "grouped"
    /\ UNCHANGED ret
    /\ GroupFrame

\* takagi: the groups' values are replaced by the running column index
TakagiRenumber ==
    /\ pc = "grouped"
    /\ fn = "takagi"
    /\ result' = Renumber(result, 0)
    /\ ret' = result'
    /\ pc' = "done"
    /\ GroupFrame

\* bloch_messiah: for _k, g in groupby(np.round(np.diag(st), rounding)[:n]):
\* result.append(list(g))
BlochMessiahGroupby ==
    /\ pc = "groupby"
    /\ fn = "bloch_messiah"
    /\ result' = groupby(PermutedValues(rl, Len(rl) \div 2))
    /\ pc' = "grouped"
    /\ UNCHANGED ret
    /\ GroupFrame

\* bloch_messiah: stop_is = list(np.cumsum([len(res) for res in result]));
\* start_is = [0] + stop_is[:-1]; the pairs are zip(start_is, stop_is)
BlochMessiahBounds ==
    /\ pc = "grouped"
    /\ fn = "bloch_messiah"
    /\ LET stop_is == cumsum([x \in 1..Len(result) |-> Len(result[x])], 0)
           start_is == <<0>> \o SubSeq(stop_is, 1, Len(stop_is) - 1)
       IN  ret' = zip(start_is, stop_is)
    /\ pc' = "done"
    /\ UNCHANGED result
    /\ GroupFrame

NextGroup ==
    \/ TakagiGroupby
    \/ TakagiRenumber
    \/ BlochMessiahGroupby
    \/ BlochMessiahBounds

SpecGroup == InitGroup /\ [][NextGroup]_vars

\* ------------------------- bloch_messiah: the permutation of the squeezers
\* 2^e
Pow2(e) == IF e >= 0 THEN CInt(2^e) ELSE <<1, 0, 0, 0, -e>>

\* The lists of len exponents, none above top, in descending order
RECURSIVE DescendingFrom(_, _)
DescendingFrom(len, top) ==
    IF len = 0 THEN {<<>>}
    ELSE UNION {{<<e>> \o t : t \in DescendingFrom(len - 1, e)} : e \in (-MaxVal)..top}

\* The singular values takagi hands back: 2n powers of two, largest first,
\* n from 1 to MaxLen
SqueezerInputs ==
    UNION {{[x \in 1..(2 * n) |-> Pow2(es[x])] : es \in DescendingFrom(2 * n, MaxVal)}
           : n \in 1..MaxLen}

InitBloch ==
    /\ fn = "bloch_messiah"
    /\ rl \in SqueezerInputs
    /\ pc = "takagi"
    /\ result = <<>>
    /\ pmat = NoValue
    /\ st = NoValue
    /\ blocks = <<>>
    /\ V = NoValue
    /\ localV = NoValue
    /\ localVbase = NoValue
    /\ tilist = <<>>
    /\ tlist = <<>>
    /\ todo = <<>>
    /\ hist = <<>>
    /\ new_tlist = <<>>
    /\ new_diags = <<>>
    /\ rest = <<>>
    /\ sym_tlist = <<>>
    /\ sym_diags = <<>>
    /\ ret = NoValue
    /\ err = NoValue
    /\ args = NoValue
    /\ work = <<>>
    /\ Vnow = NoValue

BlochFrame ==
    /\ UNCHANGED <<fn, V, ret, err, rl>>
    /\ UNCHANGED <<meshVars, phaseVars, symVars, callVars>>

\* np.identity(2*n)[perm, :]: the rows of the identity in the order perm
PermutationMatrix(p) ==
    LET I == identity(Len(p))
    IN  Mat(Len(p), Len(p), LAMBDA i, j : I.e[<<p[i + 1], j>>])

\* np.diag(ss) of a list ss
DiagOfList(ss) == Mat(Len(ss), Len(ss), LAMBDA i, j : IF i = j THEN ss[i + 1] ELSE CZero)

\* perm = ...; pmat = np.identity(2*n)[perm, :]; st = pmat @ np.diag(ss) @ pmat
BlochPermute ==
    /\ pc = "takagi"
    /\ fn = "bloch_messiah"
    /\ \E p \in {PermutationMatrix(perm(Len(rl) \div 2))}, d \in {DiagOfList(rl)} :
          \E pd \in {matmul(p, d)} :
              /\ pmat' = p
              /\ st' = matmul(pd, p)
    /\ pc' = "permuted"
    /\ UNCHANGED <<result, blocks>>
    /\ BlochFrame

\* for _k, g in groupby(np.round(np.diag(st), rounding)[:n]): ...;
\* stop_is = list(np.cumsum(...)); start_is = [0] + stop_is[:-1].
\* result holds the pairs of zip(start_is, stop_is).
BlochDegenerate ==
    /\ pc = "permuted"
    /\ fn = "bloch_messiah"
    /\ LET n == Len(rl) \div 2
           d == diag(st)
           groups == groupby([x \in 1..n |-> round(d[x - 1], BlochRounding)])
           stop_is == cumsum([x \in 1..Len(groups) |-> Len(groups[x])], 0)
           start_is == <<0>> \o SubSeq(stop_is, 1, Len(stop_is) - 1)
       IN  result' = zip(start_is, stop_is)
    /\ pc' = "grouped"
    /\ UNCHANGED <<pmat, st, blocks>>
    /\ BlochFrame

\* The index ranges block_diag gives to square blocks of the given sizes
BlockDiagLayout(sizes) ==
    LET stops == cumsum(sizes, 0)
    IN  zip(<<0>> \o SubSeq(stops, 1, Len(stops) - 1), stops)

\* for start_i, stop_i in zip(start_is, stop_is): x = qomega[start_i: stop_i,
\* n + start_i: n + stop_i].real; u_svd, _s_svd, v_svd = np.linalg.svd(x); ...
\* pmat1 = block_diag(*(u_list + v_list)).  x is square of size
\* stop_i - start_i, and so are u_svd and v_svd.T; blocks holds the index
\* ranges of pmat1's blocks.
BlochCorrection ==
    /\ pc = "grouped"
    /\ fn = "bloch_messiah"
    /\ LET u_sizes == [x \in 1..Len(result) |-> result[x][2] - result[x][1]]
           v_sizes == u_sizes
       IN  blocks' = BlockDiagLayout(u_sizes \o v_sizes)
    /\ pc' = "done"
    /\ UNCHANGED <<result, pmat, st>>
    /\ BlochFrame

NextBloch ==
    \/ BlochPermute
    \/ BlochDegenerate
    \/ BlochCorrection

SpecBloch == InitBloch /\ [][NextBloch]_vars

\* ================================================================ claims
\* for i in recs: M = T(*i) @ M
RECURSIVE LeftT(_, _)
LeftT(recs, M) ==
    IF recs = <<>> THEN M ELSE LeftT(Tail(recs), matmul(TOf(Head(recs)), M))

\* for i in recs: M = Ti(*i) @ M
RECURSIVE LeftTi(_, _)
LeftTi(recs, M) ==
    IF recs = <<>> THEN M ELSE LeftTi(Tail(recs), matmul(TiOf(Head(recs)), M))

\* for i in recs: M = M @ Ti(*i)
RECURSIVE RightTi(_, _)
RightTi(recs, M) ==
    IF recs = <<>> THEN M ELSE RightTi(Tail(recs), matmul(M, TiOf(Head(recs))))

\* The matrix the returned triple stands for: the T's of tilist applied in
\* order, then the diagonal, then the Ti's of tlist, last record first
Recompose(til, tl, d) ==
    LeftTi(reversed(tl), matmul(diagmat(d), LeftT(til, identity(Cardinality(DOMAIN d)))))

\* C1: for a unitary n x n V, clements' (tilist, tlist, diagonal) rebuilds V
\* exactly: the Ti rotations, the diagonal and the T rotations composed in
\* their recorded order give V, and the working matrix is the recorded T's
\* applied on the left of V and the recorded Ti's on its right, in the order
\* they were appended, and is the diagonal matrix returned.
C1_ClementsReconstructs ==
    (fn = "clements" /\ V.nr = V.nc /\ pc = "done") =>
        /\ localV = LeftT(ret[2].v, RightTi(ret[1].v, V))
        /\ diagmat(ret[3].v) = localV
        /\ Recompose(ret[1].v, ret[2].v, ret[3].v) = V

\* A 4 x 4 unitary was decomposed with a 50:50 rotation of nonzero phase in
\* tilist and a rotation in tlist
C1_Witness ==
    /\ fn = "clements"
    /\ pc = "done"
    /\ V.nr = 4
    /\ \E x \in 1..Len(ret[1].v) : ret[1].v[x][3] = 1 /\ ret[1].v[x][4] # 0
    /\ \E x \in 1..Len(ret[2].v) : ret[2].v[x][3] # 0

\* ---- C7
Below(n) == {p \in (0..(n-1)) \X (0..(n-1)) : p[1] > p[2]}

Targets(h) == {h[x].target : x \in 1..Len(h)}

LoopFinished == pc \in {"phase", "done"} \/ (pc = "loop" /\ todo = <<>>)

\* The pairs of entries step s mixes: a Ti mixes two columns in every row, a
\* T mixes two rows in every column
MixedPairs(step, n) ==
    IF step.op = "nullTi"
    THEN {<<<<r, step.rec[1]>>, <<r, step.rec[2]>>>> : r \in 0..(n-1)}
    ELSE {<<<<step.rec[1], c>>, <<step.rec[2], c>>>> : c \in 0..(n-1)}

\* No step mixes an entry nulled before it with an entry not nulled before it
NoMixing(h, n) ==
    \A s \in 1..Len(h) :
        LET before == {h[x].target : x \in 1..(s-1)}
        IN  \A pr \in MixedPairs(h[s], n) : (pr[1] \in before) <=> (pr[2] \in before)

\* The records of the steps made by op, in order
RECURSIVE RecsOf(_, _)
RecsOf(h, op) ==
    IF h = <<>> THEN <<>>
    ELSE (IF Head(h).op = op THEN <<Head(h).rec>> ELSE <<>>) \o RecsOf(Tail(h), op)

\* C7: on an n x n unitary, clements and triangular_decomposition make
\* exactly n(n-1)/2 nullification steps, each on its own strictly
\* below-diagonal entry and every such entry once; no step mixes an
\* already-nulled entry with one not yet nulled, so nulled entries stay zero
\* and after the last step every below-diagonal entry of the working matrix
\* is zero.  In clements sweep k makes k+1 steps, appended to tilist when k
\* is even and to tlist when k is odd.
C7_NullificationSteps ==
    (V.nr = V.nc /\ pc \in {"loop", "phase", "done"}) =>
        LET n == V.nr
        IN  /\ Cardinality(Targets(hist)) = Len(hist)
            /\ Targets(hist) \subseteq Below(n)
            /\ NoMixing(hist, n)
            /\ \A t \in Targets(hist) : localV.e[t] = CZero
            /\ LoopFinished =>
                /\ 2 * Len(hist) = n * (n - 1)
                /\ Targets(hist) = Below(n)
                /\ \A t \in Below(n) : localV.e[t] = CZero
            /\ fn # "triangular_decomposition" =>
                /\ \A x \in 1..Len(hist) :
                       hist[x].op = (IF hist[x].k % 2 = 0 THEN "nullTi" ELSE "nullT")
                /\ tilist = RecsOf(hist, "nullTi")
                /\ tlist = RecsOf(hist, "nullT")
                /\ LoopFinished =>
                       \A k \in 0..(n-2) :
                           Cardinality({x \in 1..Len(hist) : hist[x].k = k}) = k + 1

\* Both routines finished a 4 x 4 input: six steps, the third sweep of
\* clements (k = 2) with three Ti's
C7_Witness ==
    /\ pc = "done"
    /\ V.nr = 4
    /\ Len(hist) = 6
    /\ fn = "clements" => Len(ret[1].v) = 4
    /\ fn \in {"clements", "triangular_decomposition"}
    /\ \E x \in 1..Len(hist) : hist[x].rec[3] = 1

\* ---- C8
\* C8 as stated: triangular_decomposition starts in the last column that has
\* below-diagonal entries (column n-2) and moves on column by column from
\* there
C8_SweepsFromLastColumn ==
    (fn = "triangular_decomposition" /\ V.nr = V.nc /\ hist # <<>>) =>
        /\ hist[1].target[2] = V.nr - 2
        /\ \A x \in 1..(Len(hist) - 1) : hist[x + 1].target[2] <= hist[x].target[2]

\* C8 (amended): triangular_decomposition nullifies in a fixed order that
\* starts in the first column: column 0 from the last row up to row 1, then
\* column 1 from the last row up to row 2, and so on, column by column.
C8_SweepsFromFirstColumn ==
    (fn = "triangular_decomposition" /\ V.nr = V.nc /\ hist # <<>>) =>
        /\ hist[1].target = <<V.nr - 1, 0>>
        /\ \A x \in 1..(Len(hist) - 1) :
               LET a == hist[x].target
                   b == hist[x + 1].target
               IN  \/ b = <<a[1] - 1, a[2]>> /\ a[1] - 1 > a[2]
                   \/ b = <<V.nr - 1, a[2] + 1>> /\ a[1] - 1 = a[2]

\* triangular_decomposition returned for a 4 x 4 unitary after its six steps
C8_Witness ==
    /\ fn = "triangular_decomposition"
    /\ pc = "done"
    /\ V.nr = 4
    /\ Len(hist) = 6
    /\ hist[4].target = <<3, 1>>

\* ---- C10
\* What clements_phase_end has built so far: tilist's records, unchanged and
\* in order, then one record per consumed record of reversed(tlist), with the
\* same modes, theta and mode count
PhaseListShape ==
    (fn = "clements_phase_end" /\ pc \in {"phase", "done"}) =>
        LET nti == Len(tilist)
            ndone == Len(tlist) - Len(rest)
        IN  /\ Len(new_tlist) = nti + ndone
            /\ SubSeq(new_tlist, 1, nti) = tilist
            /\ \A x \in 1..ndone :
                   LET old == tlist[Len(tlist) + 1 - x]
                       new == new_tlist[nti + x]
                   IN  <<new[1], new[2], new[3], new[5]>> = <<old[1], old[2], old[3], old[5]>>
            /\ pc = "done" => (rest = <<>> /\ ret[1].v = new_tlist /\ ret[2].v = new_diags)

\* One pass of the loop: a record is appended whose phi is right for the
\* phases alpha, beta of the two running-diagonal entries at the record's
\* modes, and only those two diagonal entries may change
PhasePassSets(right(_, _, _)) ==
    (pc = "phase" /\ rest # <<>> /\ rest' = Tail(rest)) =>
        LET i == Head(rest)
            new == new_tlist'[Len(new_tlist')]
        IN  /\ new_tlist' = new_tlist \o <<new>>
            /\ right(new[4], angle(new_diags[i[1]]), angle(new_diags[i[2]]))
            /\ \A d \in DOMAIN new_diags :
                   d \notin {i[1], i[2]} => new_diags'[d] = new_diags[d]

\* C10 as stated: the new phi is the phase difference alpha - beta of the two
\* running-diagonal entries (up to full turns)
C10_PhiIsPhaseDifference ==
    /\ []PhaseListShape
    /\ [][PhasePassSets(LAMBDA phi, alpha, beta : phi % 8 = (alpha - beta) % 8)]_vars

\* C10 (amended): clements_phase_end returns tilist's records unchanged and in
\* order, followed by one record per tlist record in reverse tlist order; each
\* keeps the record's modes, mode count and theta, sets phi to
\* fmod(alpha - beta + pi, 2 pi) for the phases alpha, beta of the two
\* running-diagonal entries at the record's modes (whatever the old phi), and
\* changes no diagonal entry other than those two.
C10_PhaseEndRecords ==
    /\ []PhaseListShape
    /\ [][PhasePassSets(LAMBDA phi, alpha, beta : phi = fmod(alpha - beta + 4, 8))]_vars

\* clements_phase_end returned after pushing at least two T's through the
\* diagonal, one of them getting a phi other than its old one
C10_Witness ==
    /\ fn = "clements_phase_end"
    /\ pc = "done"
    /\ Len(tlist) >= 2
    /\ Len(tilist) >= 1
    /\ \E x \in 1..Len(tlist) :
           ret[1].v[Len(tilist) + x][4] # tlist[Len(tlist) + 1 - x][4]

\* ---- C2
IsZeroMatrix(M) == \A p \in DOMAIN M.e : M.e[p] = CZero

\* C2: graph_embed on an all-zero square matrix, with either value of
\* make_traceless and any positive max_mean_photon, returns squeezing
\* parameters that are all zero: the division by s[0] gives no undefined
\* result.
C2_ZeroGraphZeroSqueezing ==
    (fn = "graph_embed" /\ pc = "done" /\ IsZeroMatrix(V)) =>
        \A x \in 1..Len(ret[1].v) : IsZeroFloat(ret[1].v[x])

\* ---- C3
Has(s, x) == \E k \in 1..Len(s) : s[k] = x

\* S is square, of even dimension and symplectic
BlochAccepts(S) ==
    /\ S.nr = S.nc
    /\ S.nr % 2 = 0
    /\ matmul(matmul(transpose(S), sympmat(S.nr \div 2)), S) = sympmat(S.nr \div 2)

\* C3: bloch_messiah ends normally exactly on the square, even-dimensional,
\* symplectic inputs; on those with S^T S = I it returns (S, identity,
\* identity) without running the polar/Takagi/degenerate-block path, on all
\* others it runs that path; for S = identity the result is (I, I, I).
C3_PassiveShortcut ==
    (fn = "bloch_messiah" /\ Vnow = V) =>
        /\ pc = "raised" => ~BlochAccepts(V)
        /\ pc \in {"checked", "done"} => BlochAccepts(V)
        /\ pc = "done" =>
              IF matmul(transpose(V), V) = identity(V.nr)
              THEN /\ ~Has(work, "polar") /\ ~Has(work, "takagi")
                   /\ ~Has(work, "groupby") /\ ~Has(work, "svd")
                   /\ ret[1].v = V
                   /\ ret[2].v = identity(V.nr)
                   /\ ret[3].v = identity(V.nr)
              ELSE /\ Has(work, "polar") /\ Has(work, "takagi")
                   /\ Has(work, "groupby") /\ Has(work, "svd")
                   /\ ret[1].v = Computed("ut1")
        /\ (pc = "done" /\ V = identity(V.nr)) =>
              /\ ~Has(work, "polar")
              /\ \A k \in 1..3 : ret[k].v = identity(V.nr)

\* bloch_messiah returned on a passive transformation that is not the
\* identity
C3_Witness ==
    /\ fn = "bloch_messiah"
    /\ pc = "done"
    /\ V # identity(V.nr)
    /\ ~Has(work, "polar")
    /\ ret[1].v = V

\* ---- C4
\* C4: every routine ends in an error on every input that is not square, the
\* error comes from the routine's opening checks, before any nullification or
\* library decomposition, and no such input gives a normal return.
C4_NonSquareRejectedUpfront ==
    (V.nr # V.nc) =>
        /\ pc # "done"
        /\ pc = "raised" => (err.at = "validation" /\ hist = <<>> /\ work = <<>>)

\* ---- C5
PairingRoutines == {"williamson", "bloch_messiah", "covmat_to_hamil", "hamil_to_covmat"}

\* C5: williamson, bloch_messiah, covmat_to_hamil and hamil_to_covmat reject
\* every square input of odd dimension in their opening checks: no such input
\* passes them, and the error is theirs.
C5_OddRejectedUpfront ==
    (fn \in PairingRoutines /\ V.nr = V.nc /\ V.nr % 2 = 1) =>
        /\ pc \in {"call", "raised"}
        /\ pc = "raised" => err.at = "validation"

\* ---- C6
\* C6: in every call the caller's matrix is left unchanged and every
\* returned object is freshly produced, sharing no storage with the input.
C6_OutputsShareNothing ==
    /\ Vnow = V
    /\ pc = "done" => \A k \in 1..Len(ret) : ret[k].base = "fresh"

\* ---- C9
\* g is a non-empty list of consecutive indices
IsRange(g) == Len(g) >= 1 /\ \A x \in 1..(Len(g) - 1) : g[x + 1] = g[x] + 1

RECURSIVE Flatten(_)
Flatten(gs) == IF gs = <<>> THEN <<>> ELSE Head(gs) \o Flatten(Tail(gs))

\* The number of values grouped, the values, and the groups as index lists
GroupedN == IF fn = "takagi" THEN Len(rl) ELSE Len(rl) \div 2
GroupedValues == IF fn = "takagi" THEN rl ELSE PermutedValues(rl, GroupedN)
GroupsBuilt ==
    IF fn = "takagi" THEN ret
    ELSE [x \in 1..Len(ret) |-> range(ret[x][1], ret[x][2])]

InSameGroup(gs, i, j) == \E x \in 1..Len(gs) : Has(gs[x], i) /\ Has(gs[x], j)

\* C9: the index groups takagi builds, and the start/stop pairs bloch_messiah
\* builds over the first n permuted values, are non-empty ranges of
\* consecutive indices that partition 0..n-1 in increasing order, and
\* indices i, i+1 share a group exactly when their values are equal.
C9_GroupsAreRuns ==
    pc = "done" =>
        /\ \A x \in 1..Len(GroupsBuilt) : IsRange(GroupsBuilt[x])
        /\ Flatten(GroupsBuilt) = range(0, GroupedN)
        /\ \A i \in 0..(GroupedN - 2) :
              InSameGroup(GroupsBuilt, i, i + 1)
                  <=> GroupedValues[i + 1] = GroupedValues[i + 2]

\* Equal values separated by a different value were grouped, in three groups
\* or more
C9_Witness ==
    /\ pc = "done"
    /\ fn = "bloch_messiah"
    /\ Len(ret) >= 3
    /\ \E i \in 1..(GroupedN - 2) :
          /\ GroupedValues[i] = GroupedValues[i + 2]
          /\ GroupedValues[i] # GroupedValues[i + 1]

\* ---- C11
\* ss comes in reciprocal pairs: ss[k] * ss[2n-1-k] = 1 (indices from 0)
ReciprocalPairs(ss) == \A x \in 1..Len(ss) : CMul(ss[x], ss[Len(ss) + 1 - x]) = COne

\* The maximal runs of equal values among d[lo], .., d[hi-1], as pairs
\* <<start, stop>>
MaximalRuns(d, lo, hi) ==
    {<<a, b>> \in (lo..hi) \X (lo..hi) :
        /\ a < b
        /\ \A i \in a..(b - 1) : d[i] = d[a]
        /\ a > lo => d[a - 1] # d[a]
        /\ b < hi => d[b] # d[a]}

\* C11: for 2n descending singular values in reciprocal pairs, perm is an
\* involution, st is diagonal with st[n+k] = 1/st[k] for every k < n and its
\* first n values are the first n singular values, and the blocks of the
\* correction matrix in the second half are the degenerate runs of the first
\* half shifted by n, each a run of equal values of the second half.
C11_ReciprocalOrder ==
    (pc = "done" /\ ReciprocalPairs(rl)) =>
        LET n == Len(rl) \div 2
            p == perm(n)
            d == diag(st)
            seq(s) == {s[x] : x \in 1..Len(s)}
        IN  /\ \A i \in 0..(2 * n - 1) : p[p[i + 1] + 1] = i
            /\ st = diagmat(d)
            /\ \A k \in 0..(n - 1) : d[k] = rl[k + 1] /\ CMul(d[n + k], d[k]) = COne
            /\ seq(result) = MaximalRuns(d, 0, n)
            /\ Len(blocks) = 2 * Len(result)
            /\ \A x \in 1..Len(result) :
                  /\ blocks[x] = result[x]
                  /\ blocks[Len(result) + x] = <<n + result[x][1], n + result[x][2]>>
            /\ {blocks[x] : x \in (Len(result) + 1)..Len(blocks)} = MaximalRuns(d, n, 2 * n)

\* Three reciprocal pairs with a degenerate run of two and a run of one
C11_Witness ==
    /\ pc = "done"
    /\ ReciprocalPairs(rl)
    /\ Len(rl) = 6
    /\ Len(result) = 2
    /\ rl[1] # COne

\* ---- C12
\* The entries read by the call of step h
ReadsOf(h) ==
    IF h.op = "nullTi" THEN nullTiReads(h.target[1], h.target[2])
    ELSE nullTReads(h.target[1], h.target[2])

\* C12: at every nullification step of clements and
\* triangular_decomposition on an n x n matrix, the record names adjacent
\* modes (k, k+1) with 0 <= k and k+1 <= n-1 and carries mode count n, and
\* every entry nullTi or nullT reads has row and column in 0..n-1: no index
\* is out of range or negative.
C12_IndicesInRange ==
    \A s \in 1..Len(hist) :
        LET n == V.nr
            rec == hist[s].rec
        IN  /\ V.nr = V.nc
            /\ rec[2] = rec[1] + 1
            /\ 0 <= rec[1]
            /\ rec[2] <= n - 1
            /\ rec[5] = n
            /\ \A q \in ReadsOf(hist[s]) : q[1] \in 0..(n - 1) /\ q[2] \in 0..(n - 1)

\* clements finished a 4 x 4 matrix: six steps, nullTi naming the first and
\* the last pair of modes and nullT reading the last row
C12_Witness ==
    /\ fn = "clements"
    /\ pc = "done"
    /\ V.nr = 4
    /\ Len(hist) = 6
    /\ \E x \in 1..6 : hist[x].op = "nullTi" /\ hist[x].rec[1] = 0
    /\ \E x \in 1..6 : hist[x].op = "nullTi" /\ hist[x].rec[2] = 3
    /\ \E x \in 1..6 : hist[x].op = "nullT" /\ <<3, 1>> \in ReadsOf(hist[x])
====
